---- MODULE Spec2Model ----
(***************************************************************************)
(* The dashboard of api/static/dashboard.js as a state machine: the poll   *)
(* scheduler (init, setInterval), the event diff against the seen ids      *)
(* (checkNewEvents), the toast (showNotification and its dismiss timers),  *)
(* the stats and detections refreshes and the user operations.             *)
(*                                                                         *)
(* JavaScript runs one task at a time: every action below is one task, the *)
(* code from a call or from the resumption after the last `await` up to    *)
(* the next suspension.  A fetch that was issued and has not been resumed  *)
(* is a record of `pending`; a request that never resolves stays there.    *)
(***************************************************************************)
EXTENDS Integers, Sequences, FiniteSets

VARIABLES
    notifications,      \* dashboard.js:6   ids of the events already notified
    capturedImageData,  \* dashboard.js:5   FALSE models null
    toast,              \* #toast, #toastTitle, #toastMessage
    timers,             \* pending dismiss timers: their remaining ticks
    dom,                \* the other elements the code writes
    armed,              \* init has run and its setInterval is registered
    cycle,              \* interval callbacks run so far
    pending,            \* fetches in flight
    created,            \* backend: events 1..created exist
    h                   \* history (not read by the program)

vars == <<notifications, capturedImageData, toast, timers, dom, armed, cycle,
          pending, created, h>>

(***************************************************************************)
(* Bounds of the model.                                                    *)
(***************************************************************************)
MaxCycles == 2
MaxEvents == 2
MaxUserFetches == 1
MaxRecords == 2

\* dashboard.js:74: the 5000 ms of the dismiss timer, in ticks of 2500 ms.
DisplayDuration == 2

Ids == 1..MaxEvents

Range(s) == {s[i] : i \in 1..Len(s)}

NoDup(s) == \A i, j \in 1..Len(s) : s[i] = s[j] => i = j

RECURSIVE SeqsUpTo(_, _)
SeqsUpTo(S, n) ==
    IF n = 0 THEN {<<>>}
    ELSE LET shorter == SeqsUpTo(S, n - 1)
         IN  shorter \cup {Append(s, x) : s \in {t \in shorter : Len(t) = n - 1}, x \in S}

(***************************************************************************)
(* Backend records.  An event's tipo and descripcion are fixed by its id   *)
(* (an event is immutable once fetched); they are numbered, not spelled.   *)
(***************************************************************************)
Evento(i) == [id |-> i, tipo |-> 10 + i, descripcion |-> 20 + i]

\* What GET /eventos can carry: existing events, in any order, an id
\* possibly listed more than once, at most MaxEvents entries.
AllEventLists == {[k \in 1..Len(s) |-> Evento(s[k])] : s \in SeqsUpTo(Ids, MaxEvents)}

Exists(list) == \A k \in 1..Len(list) : list[k].id <= created

AllStatsSnapshots == {[eventos_pendientes |-> n] : n \in 0..MaxEvents}

Counts(snapshot) == snapshot.eventos_pendientes <= created

DetectionLists == {<<>>, <<1>>}

PersonLists == {<<>>, <<1>>}

HttpStatuses == {200, 500}

(***************************************************************************)
(* The outcome of `await fetch(..)` followed by `await response.json()`:   *)
(* the request is rejected (no response), or a response arrives with an    *)
(* HTTP status and a body that parses or not; a parsed body has `success`  *)
(* and `data`.                                                             *)
(***************************************************************************)
Rejected == [resolved |-> FALSE, status |-> 0, parses |-> FALSE, success |-> FALSE, data |-> <<>>]

Unsuccessful ==
    {Rejected}
    \cup {[resolved |-> TRUE, status |-> s, parses |-> FALSE, success |-> FALSE, data |-> <<>>] :
            s \in HttpStatuses}
    \cup {[resolved |-> TRUE, status |-> s, parses |-> TRUE, success |-> FALSE, data |-> <<>>] :
            s \in HttpStatuses}

Successful(Data) ==
    {[resolved |-> TRUE, status |-> s, parses |-> TRUE, success |-> TRUE, data |-> d] :
        s \in HttpStatuses, d \in Data}

EventosOutcomes == Unsuccessful \cup Successful(AllEventLists)

StatsOutcomes == Unsuccessful \cup Successful(AllStatsSnapshots)

DeteccionesOutcomes == Unsuccessful \cup Successful(DetectionLists)

PersonasOutcomes == Unsuccessful \cup Successful(PersonLists)

\* A POST's body, or a body whose data only goes into a downloaded file.
PlainOutcomes == Unsuccessful \cup Successful({<<>>})

\* The try block reaches `if (data.success)` and does not take it.
Declines(o) == o.resolved /\ o.parses /\ ~o.success

\* The try block reaches `if (data.success)` and takes it: neither await threw.
\* The code never reads response.ok or response.status.
Succeeds(o) == o.resolved /\ o.parses /\ o.success

(***************************************************************************)
(* showNotification, dashboard.js:63-75.                                   *)
(***************************************************************************)
Message(text, args) == [text |-> text, args |-> args]

ShownToast(title, message, type) ==
    [active |-> TRUE, type |-> type, title |-> title, message |-> message]

\* setTimeout(.., 5000): timers that expire at the same instant are kept as
\* one (their callbacks are the same idempotent classList.remove).
TimerSet(ts) == ts \cup {DisplayDuration}

HiddenToast(t) == [t EXCEPT !.active = FALSE]

(***************************************************************************)
(* The elements written by textContent / innerHTML.  A text is <<>> while  *)
(* it still holds what the page's markup put there, <<v>> once written.    *)
(***************************************************************************)
Markup == <<>>

Text(v) == <<v>>

Request(op, c) == [op |-> op, cycle |-> c]

\* The cycle of a request that no scheduler pass issued.
NoCycle == 0 - 1

\* History.  h.presented counts the event notifications presented per id,
\* h.observed lists the ids in the order the processed lists first carried
\* them, h.dupFree says that no processed list carried an id twice,
\* h.repeated that some processed list carried an id recorded by an earlier
\* diff, h.stale that a notification was presented for an id that was in
\* `notifications` at that moment.  h.issued is the poll requests in the
\* order issued, h.overlap says that an interval callback ran while an event
\* fetch was in flight.  h.failed holds the fetches that failed since the scheduler last
\* issued requests, h.survived says that the interval callback has run after
\* a failed fetch, h.started counts the fetching operations the user has
\* started, h.exported holds the data and the clock of the last download,
\* h.shown the cycle of the request whose answer the stats and the detections
\* list show.
Failed(hist, r) == [hist EXCEPT !.failed = @ \cup {r.op}]

Init ==
    /\ notifications = <<>>
    /\ capturedImageData = FALSE
    /\ toast = [active |-> FALSE, type |-> "", title |-> "", message |-> Message("", <<>>)]
    /\ timers = {}
    /\ dom = [notificationCount |-> Markup, stats |-> Markup, deteccionesList |-> Markup,
              eventosList |-> Markup, personasList |-> Markup, download |-> Markup]
    /\ armed = FALSE
    /\ cycle = 0
    /\ pending = {}
    /\ created \in 0..MaxEvents
    /\ h = [presented |-> [i \in Ids |-> 0],
            observed  |-> <<>>,
            dupFree   |-> TRUE,
            repeated  |-> FALSE,
            stale     |-> FALSE,
            issued    |-> <<>>,
            overlap   |-> FALSE,
            failed    |-> {},
            survived  |-> FALSE,
            started   |-> 0,
            exported  |-> <<>>,
            shown     |-> [stats |-> NoCycle, detecciones |-> NoCycle]]

(***************************************************************************)
(* init, dashboard.js:14-26: the DOMContentLoaded handler.  loadStats and  *)
(* loadDetecciones run up to their fetch; loadActivity and the canvas      *)
(* animation write nothing the rest of the code reads.                     *)
(***************************************************************************)
StartupRequests == <<Request("stats", 0), Request("detecciones", 0)>>

init ==
    /\ ~armed
    /\ armed' = TRUE
    /\ pending' = pending \cup Range(StartupRequests)
    /\ h' = [h EXCEPT !.issued = h.issued \o StartupRequests]
    /\ UNCHANGED <<notifications, capturedImageData, toast, timers, dom, cycle, created>>

(***************************************************************************)
(* The setInterval callback, dashboard.js:21-25: loadStats(),              *)
(* loadDetecciones(), checkNewEvents(), each up to its fetch.              *)
(***************************************************************************)
CycleRequests(c) == <<Request("stats", c), Request("detecciones", c), Request("eventos", c)>>

IntervalCallbackUnlessFailed ==
    /\ h.failed = {}
    /\ armed
    /\ cycle < MaxCycles
    /\ cycle' = cycle + 1
    /\ pending' = pending \cup Range(CycleRequests(cycle + 1))
    /\ h' = [h EXCEPT !.issued = h.issued \o CycleRequests(cycle + 1),
                      !.overlap = h.overlap \/ \E q \in pending : q.op = "eventos"]
    /\ UNCHANGED <<notifications, capturedImageData, toast, timers, dom, armed, created>>

IntervalCallbackWhenIdle ==
    /\ pending = {}
    /\ armed
    /\ cycle < MaxCycles
    /\ cycle' = cycle + 1
    /\ pending' = pending \cup Range(CycleRequests(cycle + 1))
    /\ h' = [h EXCEPT !.issued = h.issued \o CycleRequests(cycle + 1),
                      !.overlap = h.overlap \/ \E q \in pending : q.op = "eventos",
                      !.failed = {},
                      !.survived = h.survived \/ h.failed # {}]
    /\ UNCHANGED <<notifications, capturedImageData, toast, timers, dom, armed, created>>

IntervalCallback ==
    /\ armed
    /\ cycle < MaxCycles
    /\ cycle' = cycle + 1
    /\ pending' = pending \cup Range(CycleRequests(cycle + 1))
    /\ h' = [h EXCEPT !.issued = h.issued \o CycleRequests(cycle + 1),
                      !.overlap = h.overlap \/ \E q \in pending : q.op = "eventos",
                      !.failed = {},
                      !.survived = h.survived \/ h.failed # {}]
    /\ UNCHANGED <<notifications, capturedImageData, toast, timers, dom, armed, created>>

(***************************************************************************)
(* checkNewEvents after its awaits, dashboard.js:35-56.                    *)
(***************************************************************************)
IsNewWithoutLookup(seen, e) == TRUE

\* dashboard.js:38, the filter's predicate.
IsNew(seen, e) == e.id \notin Range(seen)

NewEvents(seen, data) == SelectSeq(data, LAMBDA e : IsNew(seen, e))

MarkSeenLatestOnly(seen, e) == <<e.id>>

\* dashboard.js:47
MarkSeen(seen, e) == Append(seen, e.id)

EventToastAsSuccess(e) ==
    ShownToast("Nuevo Evento", Message("tipo: descripcion", <<e.tipo, e.descripcion>>), "success")

\* dashboard.js:42-46
EventToast(e) == ShownToast("Nuevo Evento", Message("tipo: descripcion", <<e.tipo, e.descripcion>>), "error")

\* dashboard.js:41-48, the forEach: the state after the first n new events.
RECURSIVE AfterNotifying(_, _, _)
AfterNotifying(st, newEvents, n) ==
    IF n = 0 THEN st
    ELSE LET prev == AfterNotifying(st, newEvents, n - 1)
             e    == newEvents[n]
         IN  [seen      |-> MarkSeen(prev.seen, e),
              toast     |-> EventToast(e),
              timers    |-> TimerSet(prev.timers),
              presented |-> [prev.presented EXCEPT ![e.id] = @ + 1],
              stale     |-> prev.stale \/ e.id \in Range(prev.seen)]

\* dashboard.js:51
CountAfterDiff(seen) == Text(Len(seen))

\* The ids of a list in the order first listed.
RECURSIVE FirstListed(_, _)
FirstListed(known, ids) ==
    IF ids = <<>> THEN known
    ELSE FirstListed(IF Head(ids) \in Range(known) THEN known ELSE Append(known, Head(ids)),
                     Tail(ids))

IdsOf(data) == [k \in 1..Len(data) |-> data[k].id]

checkNewEventsResumeAborting(r, o) ==
    /\ r \in pending
    /\ r.op = "eventos"
    /\ IF Succeeds(o)
       THEN /\ pending' = pending \ {r}
            /\ UNCHANGED h
       ELSE /\ pending' = {}
            /\ h' = Failed(h, r)
    /\ UNCHANGED <<notifications, capturedImageData, toast, timers, dom, armed, cycle, created>>

checkNewEventsResume(r, o) ==
    /\ r \in pending
    /\ r.op = "eventos"
    /\ pending' = pending \ {r}
    /\ IF Succeeds(o)
       THEN LET newEvents == NewEvents(notifications, o.data)
                st == AfterNotifying([seen |-> notifications, toast |-> toast,
                                      timers |-> timers, presented |-> h.presented,
                                      stale |-> h.stale],
                                     newEvents, Len(newEvents))
            IN  /\ notifications' = st.seen
                /\ toast' = st.toast
                /\ timers' = st.timers
                /\ dom' = IF Len(newEvents) > 0
                          THEN [dom EXCEPT !.notificationCount = CountAfterDiff(st.seen)]
                          ELSE dom
                /\ h' = [h EXCEPT !.presented = st.presented,
                                  !.observed = FirstListed(h.observed, IdsOf(o.data)),
                                  !.dupFree = h.dupFree /\ NoDup(IdsOf(o.data)),
                                  !.repeated = h.repeated \/ Range(IdsOf(o.data)) \cap Range(notifications) # {},
                                  !.stale = st.stale]
       ELSE /\ h' = Failed(h, r)
            /\ UNCHANGED <<notifications, toast, timers, dom>>
    /\ UNCHANGED <<capturedImageData, armed, cycle, created>>

(***************************************************************************)
(* loadStats after its awaits, dashboard.js:84-97.                         *)
(***************************************************************************)
loadStatsResumeNewestOnly(r, o) ==
    /\ r \in pending
    /\ r.op = "stats"
    /\ pending' = pending \ {r}
    /\ IF Succeeds(o) /\ r.cycle >= h.shown.stats
       THEN /\ dom' = [dom EXCEPT !.stats = Text(o.data),
                                  !.notificationCount = Text(o.data.eventos_pendientes)]
            /\ h' = [h EXCEPT !.shown.stats = r.cycle]
       ELSE /\ h' = IF Succeeds(o) THEN h ELSE Failed(h, r)
            /\ UNCHANGED dom
    /\ UNCHANGED <<notifications, capturedImageData, toast, timers, armed, cycle, created>>

loadStatsResume(r, o) ==
    /\ r \in pending
    /\ r.op = "stats"
    /\ pending' = pending \ {r}
    /\ IF Succeeds(o)
       THEN /\ dom' = [dom EXCEPT !.stats = Text(o.data),
                                  !.notificationCount = Text(o.data.eventos_pendientes)]
            /\ h' = [h EXCEPT !.shown.stats = r.cycle]
       ELSE /\ h' = Failed(h, r)
            /\ UNCHANGED dom
    /\ UNCHANGED <<notifications, capturedImageData, toast, timers, armed, cycle, created>>

(***************************************************************************)
(* loadDetecciones after its awaits, dashboard.js:107-131.  A parsed body  *)
(* always rewrites the list: the items, or the placeholder paragraph when  *)
(* success is false or the list is empty.                                  *)
(***************************************************************************)
DeteccionesHtml(o) ==
    IF o.success /\ Len(o.data) > 0
    THEN [kind |-> "items", items |-> o.data]
    ELSE [kind |-> "placeholder", items |-> <<>>]

loadDeteccionesResume(r, o) ==
    /\ r \in pending
    /\ r.op = "detecciones"
    /\ pending' = pending \ {r}
    /\ IF o.resolved /\ o.parses
       THEN dom' = [dom EXCEPT !.deteccionesList = Text(DeteccionesHtml(o))]
       ELSE UNCHANGED dom
    /\ h' = IF Succeeds(o) THEN [h EXCEPT !.shown.detecciones = r.cycle]
            ELSE IF o.resolved /\ o.parses THEN Failed([h EXCEPT !.shown.detecciones = r.cycle], r)
            ELSE Failed(h, r)
    /\ UNCHANGED <<notifications, capturedImageData, toast, timers, armed, cycle, created>>

(***************************************************************************)
(* toggleNotifications, dashboard.js:59-61.  The user acts on the loaded    *)
(* page.                                                                   *)
(***************************************************************************)
toggleNotificationsMarkingRead ==
    /\ armed
    /\ toast' = ShownToast("Notificaciones",
                           Message("Tienes n eventos pendientes", <<Len(notifications)>>),
                           "success")
    /\ timers' = TimerSet(timers)
    /\ notifications' = <<>>
    /\ UNCHANGED <<capturedImageData, dom, armed, cycle, pending, created, h>>

toggleNotifications ==
    /\ armed
    /\ toast' = ShownToast("Notificaciones",
                           Message("Tienes n eventos pendientes", <<Len(notifications)>>),
                           "success")
    /\ timers' = TimerSet(timers)
    /\ UNCHANGED <<notifications, capturedImageData, dom, armed, cycle, pending, created, h>>

(***************************************************************************)
(* The user's operations.  The user starts one when the fetches of the     *)
(* previous one have been answered, and starts MaxUserFetches operations   *)
(* that fetch at most.  A request issued outside the scheduler's passes    *)
(* carries NoCycle.                                                        *)
(***************************************************************************)
\* The texts are the source's, written without their accents.
UserRequest(op) == Request(op, NoCycle)

UserIdle == armed /\ \A r \in pending : r.cycle # NoCycle

MayFetch == h.started < MaxUserFetches

Started(hist) == [hist EXCEPT !.started = @ + 1]

Notify(title, text, type) == ShownToast(title, Message(text, <<>>), type)

\* resolverEvento, dashboard.js:329-349, up to its fetch.
resolverEvento(eventoId) ==
    /\ UserIdle
    /\ MayFetch
    /\ eventoId <= created
    /\ pending' = pending \cup {UserRequest("resolver")}
    /\ h' = Started(h)
    /\ UNCHANGED <<notifications, capturedImageData, toast, timers, dom, armed, cycle, created>>

\* resolverEvento after its awaits: loadEventos() and loadStats() run up to
\* their fetch; a failure is logged.
resolverEventoResume(r, o) ==
    /\ r \in pending
    /\ r.op = "resolver"
    /\ IF Succeeds(o)
       THEN /\ toast' = Notify("Exito", "Evento resuelto correctamente", "success")
            /\ timers' = TimerSet(timers)
            /\ pending' = (pending \ {r}) \cup {UserRequest("loadEventos"), UserRequest("stats")}
       ELSE /\ pending' = pending \ {r}
            /\ UNCHANGED <<toast, timers>>
    /\ UNCHANGED <<notifications, capturedImageData, dom, armed, cycle, created, h>>

\* loadEventos after its awaits, dashboard.js:299-327.
EventosHtml(o) ==
    IF o.success /\ Len(o.data) > 0
    THEN [kind |-> "items", items |-> IdsOf(o.data)]
    ELSE [kind |-> "placeholder", items |-> <<>>]

loadEventosResume(r, o) ==
    /\ r \in pending
    /\ r.op = "loadEventos"
    /\ pending' = pending \ {r}
    /\ IF o.resolved /\ o.parses
       THEN dom' = [dom EXCEPT !.eventosList = Text(EventosHtml(o))]
       ELSE UNCHANGED dom
    /\ UNCHANGED <<notifications, capturedImageData, toast, timers, armed, cycle, created, h>>

\* capturePhoto, dashboard.js:203-225 (the canvas and the camera are not
\* modelled).
capturePhoto ==
    /\ UserIdle
    /\ capturedImageData' = TRUE
    /\ toast' = Notify("Foto Capturada", "Foto capturada correctamente", "success")
    /\ timers' = TimerSet(timers)
    /\ UNCHANGED <<notifications, dom, armed, cycle, pending, created, h>>

\* submitNewPerson, dashboard.js:234-275, up to its fetch or its early return.
submitNewPerson ==
    /\ UserIdle
    /\ IF ~capturedImageData
       THEN /\ toast' = Notify("Error", "Debes capturar una foto", "error")
            /\ timers' = TimerSet(timers)
            /\ UNCHANGED <<pending, h>>
       ELSE /\ MayFetch
            /\ pending' = pending \cup {UserRequest("submit")}
            /\ h' = Started(h)
            /\ UNCHANGED <<toast, timers>>
    /\ UNCHANGED <<notifications, capturedImageData, dom, armed, cycle, created>>

\* submitNewPerson after its awaits: loadPersonas() and loadStats() run up to
\* their fetch.
submitNewPersonResume(r, o) ==
    /\ r \in pending
    /\ r.op = "submit"
    /\ timers' = TimerSet(timers)
    /\ IF Succeeds(o)
       THEN /\ toast' = Notify("Exito", "Persona registrada correctamente", "success")
            /\ capturedImageData' = FALSE
            /\ pending' = (pending \ {r}) \cup {UserRequest("loadPersonas"), UserRequest("stats")}
       ELSE /\ toast' = IF Declines(o)
                         THEN Notify("Error", "data.error", "error")
                         ELSE Notify("Error", "Error al registrar persona", "error")
            /\ pending' = pending \ {r}
            /\ UNCHANGED capturedImageData
    /\ UNCHANGED <<notifications, dom, armed, cycle, created, h>>

\* loadPersonas after its awaits, dashboard.js:138-166.
PersonasHtml(o) ==
    IF o.success /\ Len(o.data) > 0
    THEN [kind |-> "items", items |-> o.data]
    ELSE [kind |-> "placeholder", items |-> <<>>]

loadPersonasResume(r, o) ==
    /\ r \in pending
    /\ r.op = "loadPersonas"
    /\ pending' = pending \ {r}
    /\ IF o.resolved /\ o.parses
       THEN dom' = [dom EXCEPT !.personasList = Text(PersonasHtml(o))]
       ELSE UNCHANGED dom
    /\ UNCHANGED <<notifications, capturedImageData, toast, timers, armed, cycle, created, h>>

(***************************************************************************)
(* Text.  A string is a sequence of tokens: the comma, the double quote    *)
(* and the line break are tokens of their own, any other token is a run of *)
(* characters that holds none of the three.                                *)
(***************************************************************************)
Comma == ","

DQuote == "\""

LineBreak == "\n"

Digits == <<"0", "1", "2", "3", "4", "5", "6", "7", "8", "9">>

\* String(n) of a natural number.
RECURSIVE Str(_)
Str(n) == IF n < 10 THEN <<Digits[n + 1]>> ELSE Str(n \div 10) \o <<Digits[(n % 10) + 1]>>

\* Array.prototype.join on an array of strings.
RECURSIVE Join(_, _)
Join(texts, sep) ==
    IF texts = <<>> THEN <<>>
    ELSE IF Len(texts) = 1 THEN texts[1]
    ELSE texts[1] \o <<sep>> \o Join(Tail(texts), sep)

RECURSIVE Concat(_)
Concat(texts) == IF texts = <<>> THEN <<>> ELSE Head(texts) \o Concat(Tail(texts))

\* JSON values: the kind, the text String(value) gives, and the number of a
\* number (a fraction is kept in thousandths).
StringValue(chars) == [kind |-> "string", text |-> chars, num |-> 0]

NumberValue(n) == [kind |-> "number", text |-> Str(n), num |-> n]

Fraction(thousandths) == [kind |-> "number", text |-> <<"0.">> \o Str(thousandths), num |-> thousandths]

Null == [kind |-> "null", text |-> <<"null">>, num |-> 0]

Undefined == [kind |-> "undefined", text |-> <<"undefined">>, num |-> 0]

\* The `data` of a body: absent, or a list of objects (for the stats, one
\* object, kept as its list of fields).
Payload(items) == [present |-> TRUE, items |-> items]

AbsentPayload == [present |-> FALSE, items |-> <<>>]

\* A JSON object: its fields in iteration order.
Field(key, value) == [key |-> key, value |-> value]

Keys(obj) == [k \in 1..Len(obj) |-> <<obj[k].key>>]

Values(obj) == [k \in 1..Len(obj) |-> obj[k].value]

Get(obj, key) ==
    IF \E k \in 1..Len(obj) : obj[k].key = key
    THEN obj[CHOOSE k \in 1..Len(obj) : obj[k].key = key].value
    ELSE Undefined

\* `${value}`
Template(value) == value.text

JoinedEscaped(value) == <<DQuote>> \o value.text \o <<DQuote>>

\* The string join() gives an element: empty for null and undefined.
Joined(value) == IF value.kind \in {"null", "undefined"} THEN <<>> ELSE value.text

Truthy(value) ==
    CASE value.kind = "string" -> value.text # <<>>
      [] value.kind = "number" -> value.num # 0
      [] OTHER -> FALSE

\* String.prototype.toUpperCase on the severities of the schema
\* (part_000:47).
UpperCase(token) ==
    CASE token = "baja" -> "BAJA"
      [] token = "media" -> "MEDIA"
      [] token = "alta" -> "ALTA"
      [] token = "critica" -> "CRITICA"
      [] OTHER -> token

toUpperCase(chars) == [k \in 1..Len(chars) |-> UpperCase(chars[k])]

\* (x * 100).toFixed(1) of a fraction kept in thousandths.
Percent(value) == Str(value.num \div 10) \o <<".">> \o Str(value.num % 10)

(***************************************************************************)
(* generateCSV, dashboard.js:498-505.                                      *)
(***************************************************************************)
generateCSV(data) ==
    IF ~data.present \/ Len(data.items) = 0 THEN <<>>
    ELSE LET items == data.items
             headers == Join(Keys(items[1]), Comma)
             rows == Join([i \in 1..Len(items) |->
                             Join([k \in 1..Len(items[i]) |-> Joined(Values(items[i])[k])], Comma)],
                          LineBreak)
         IN  headers \o <<LineBreak>> \o rows

(***************************************************************************)
(* generateEventosCSV, dashboard.js:507-514.                               *)
(***************************************************************************)
EventosCSVHeader ==
    <<"ID", Comma, "Tipo", Comma, "Severidad", Comma, "Descripcion", Comma,
      "Timestamp", Comma, "Camara", Comma, "Resuelto", LineBreak>>

Quoted(value) == <<DQuote>> \o Template(value) \o <<DQuote>>

EventosCSVRow(e) ==
    Template(Get(e, "id")) \o <<Comma>>
    \o Quoted(Get(e, "tipo")) \o <<Comma>>
    \o Quoted(Get(e, "severidad")) \o <<Comma>>
    \o Quoted(Get(e, "descripcion")) \o <<Comma>>
    \o Quoted(Get(e, "timestamp")) \o <<Comma>>
    \o Quoted(Get(e, "camara_nombre")) \o <<Comma>>
    \o Template(Get(e, "resuelto"))

generateEventosCSV(data) ==
    EventosCSVHeader
    \o Join([i \in 1..Len(data.items) |-> EventosCSVRow(data.items[i])], LineBreak)

(***************************************************************************)
(* generatePDFContent, generateEventosPDFContent, generateStatsPDFContent, *)
(* dashboard.js:516-562.  `now` is new Date().toLocaleString('es-MX').     *)
(***************************************************************************)
RuleLine == [k \in 1..70 |-> "-"] \o <<LineBreak, LineBreak>>

Generated(now) == <<"Generado: ">> \o now \o <<LineBreak>>

OrdinalFromZero(idx) == Str(idx)

\* `${idx + 1}`, idx counted from 0.
Ordinal(idx) == Str(idx + 1)

\* dashboard.js:522-528
DeteccionBlock(det, idx) ==
    Ordinal(idx) \o <<". ">> \o Template(Get(det, "nombre")) \o <<" ">>
        \o (IF Truthy(Get(det, "apellido")) THEN Template(Get(det, "apellido")) ELSE <<>>)
        \o <<LineBreak>>
    \o <<"   Fecha: ">> \o Template(Get(det, "timestamp")) \o <<LineBreak>>
    \o <<"   Estado: ", IF Truthy(Get(det, "es_desconocido")) THEN "DESCONOCIDO" ELSE "CONOCIDO",
         LineBreak>>
    \o <<"   Confianza: ">> \o Percent(Get(det, "confianza")) \o <<"%", LineBreak>>
    \o <<LineBreak>>

generatePDFContent(data, now) ==
    <<"=== REPORTE DE DETECCIONES ===", LineBreak, LineBreak>>
    \o Generated(now)
    \o <<"Total de detecciones: ">> \o Str(Len(data.items)) \o <<LineBreak, LineBreak>>
    \o RuleLine
    \o Concat([i \in 1..Len(data.items) |-> DeteccionBlock(data.items[i], i - 1)])

\* dashboard.js:539-545
EventoBlock(evento, idx) ==
    Ordinal(idx) \o <<". ">> \o Template(Get(evento, "tipo")) \o <<LineBreak>>
    \o <<"   Severidad: ">> \o toUpperCase(Get(evento, "severidad").text) \o <<LineBreak>>
    \o <<"   Fecha: ">> \o Template(Get(evento, "timestamp")) \o <<LineBreak>>
    \o <<"   Descripcion: ">> \o Template(Get(evento, "descripcion")) \o <<LineBreak>>
    \o <<LineBreak>>

generateEventosPDFContent(data, now) ==
    <<"=== REPORTE DE EVENTOS ===", LineBreak, LineBreak>>
    \o Generated(now)
    \o <<"Total de eventos: ">> \o Str(Len(data.items)) \o <<LineBreak, LineBreak>>
    \o RuleLine
    \o Concat([i \in 1..Len(data.items) |-> EventoBlock(data.items[i], i - 1)])

StatsLine(label, stats, key) == <<label>> \o Template(Get(stats.items, key)) \o <<LineBreak>>

generateStatsPDFContent(stats, now) ==
    <<"=== REPORTE DE ESTADISTICAS ===", LineBreak, LineBreak>>
    \o Generated(now) \o <<LineBreak>>
    \o RuleLine
    \o StatsLine("Personas Registradas: ", stats, "personas_registradas")
    \o StatsLine("Detecciones Hoy: ", stats, "detecciones_hoy")
    \o StatsLine("Personas Unicas Hoy: ", stats, "personas_unicas_hoy")
    \o StatsLine("Desconocidos Hoy: ", stats, "desconocidos_hoy")
    \o StatsLine("Eventos Pendientes: ", stats, "eventos_pendientes")
    \o StatsLine("Camaras Activas: ", stats, "camaras_activas")

(***************************************************************************)
(* What the exports can be given: records of the schema (part_000), at     *)
(* most MaxRecords of them, the texts with a comma, a double quote or a    *)
(* line break among them.                                                  *)
(***************************************************************************)
FieldTexts == {<<"a">>, <<Comma>>, <<DQuote>>, <<LineBreak>>}

EventObject(id, tipo, descripcion) ==
    <<Field("id", NumberValue(id)),
      Field("tipo", StringValue(tipo)),
      Field("severidad", StringValue(IF id < 10 THEN <<"alta">> ELSE <<"media">>)),
      Field("descripcion", StringValue(descripcion)),
      Field("timestamp", StringValue(<<"2025-01-01 10:00:00">>)),
      Field("camara_nombre", StringValue(<<"Entrada">>)),
      Field("resuelto", NumberValue(0))>>

EventObjects ==
    {EventObject(id, tipo, descripcion) :
        id \in {1, 12}, tipo \in FieldTexts, descripcion \in {<<"d">>, <<"d", Comma, "e">>}}

DetectionObject(nombre, apellido, desconocido) ==
    <<Field("id", NumberValue(1)),
      Field("nombre", StringValue(nombre)),
      Field("apellido", apellido),
      Field("timestamp", StringValue(<<"2025-01-01 10:00:00">>)),
      Field("es_desconocido", NumberValue(desconocido)),
      Field("confianza", Fraction(955))>>

DetectionObjects ==
    {DetectionObject(nombre, apellido, desconocido) :
        nombre \in FieldTexts, apellido \in {Null, StringValue(<<"Paz">>)}, desconocido \in {0, 1}}

PersonObject(nombre, tipo, notas) ==
    <<Field("id", NumberValue(1)),
      Field("nombre", StringValue(nombre)),
      Field("tipo", StringValue(<<tipo>>)),
      Field("notas", notas)>>

PersonObjects ==
    {PersonObject(nombre, tipo, notas) :
        nombre \in FieldTexts, tipo \in {"residente", "empleado"},
        notas \in {Null, StringValue(<<"x">>)}}

StatsObject(n) ==
    <<Field("personas_registradas", NumberValue(n)),
      Field("detecciones_hoy", NumberValue(n)),
      Field("personas_unicas_hoy", NumberValue(n)),
      Field("desconocidos_hoy", NumberValue(n)),
      Field("eventos_pendientes", NumberValue(n)),
      Field("camaras_activas", NumberValue(n))>>

Lists(Objects) == {AbsentPayload} \cup {Payload(items) : items \in SeqsUpTo(Objects, MaxRecords)}

\* The data of the resource each export fetches.
ExportData(kind) ==
    CASE kind = "exportPersonas" -> Lists(PersonObjects)
      [] kind \in {"exportPDF", "exportExcel"} -> Lists(DetectionObjects)
      [] kind \in {"exportEventosPDF", "exportEventosExcel"} -> Lists(EventObjects)
      [] kind = "exportStatsPDF" -> {AbsentPayload, Payload(StatsObject(0)), Payload(StatsObject(3))}

\* new Date().toLocaleString('es-MX') at the moment of the export.
Clock == {<<"1/1/2025, 10:00:00">>, <<"1/1/2025, 10:00:30">>}

\* A generator reads a property of undefined: data.length, data.map or a
\* field of the stats.  generateCSV tests `!data` first.
GeneratorThrows(kind, data) == ~data.present /\ kind \notin {"exportPersonas", "exportExcel"}

\* The arguments of downloadFile (dashboard.js:564-574) in each export.
ExportFile(kind, data, now) ==
    CASE kind = "exportPersonas" ->
            [content |-> generateCSV(data), filename |-> "personas_registradas.csv",
             mimeType |-> "text/csv"]
      [] kind = "exportPDF" ->
            [content |-> generatePDFContent(data, now), filename |-> "reporte_detecciones.txt",
             mimeType |-> "text/plain"]
      [] kind = "exportExcel" ->
            [content |-> generateCSV(data), filename |-> "detecciones.csv",
             mimeType |-> "text/csv"]
      [] kind = "exportEventosPDF" ->
            [content |-> generateEventosPDFContent(data, now), filename |-> "reporte_eventos.txt",
             mimeType |-> "text/plain"]
      [] kind = "exportEventosExcel" ->
            [content |-> generateEventosCSV(data), filename |-> "eventos.csv",
             mimeType |-> "text/csv"]
      [] kind = "exportStatsPDF" ->
            [content |-> generateStatsPDFContent(data, now),
             filename |-> "reporte_estadisticas.txt", mimeType |-> "text/plain"]

\* The exports, dashboard.js:277-293 and 413-496: the toast at the start, at
\* the end and in the catch block of each.
ExportKinds == {"exportPersonas", "exportPDF", "exportExcel", "exportEventosPDF",
                "exportEventosExcel", "exportStatsPDF"}

ExportToasts(kind) ==
    CASE kind = "exportPersonas" ->
            [start |-> Notify("Exportando", "Generando archivo Excel...", "success"),
             done  |-> Notify("Exito", "Archivo exportado correctamente", "success"),
             error |-> Notify("Error", "Error al exportar", "error")]
      [] kind = "exportPDF" ->
            [start |-> Notify("Generando", "Creando reporte PDF...", "success"),
             done  |-> Notify("Exito", "Reporte generado (formato simplificado)", "success"),
             error |-> Notify("Error", "Error al generar reporte", "error")]
      [] kind = "exportExcel" ->
            [start |-> Notify("Generando", "Creando archivo Excel...", "success"),
             done  |-> Notify("Exito", "Archivo Excel generado", "success"),
             error |-> Notify("Error", "Error al generar Excel", "error")]
      [] kind = "exportEventosPDF" ->
            [start |-> Notify("Generando", "Creando reporte de eventos...", "success"),
             done  |-> Notify("Exito", "Reporte generado", "success"),
             error |-> Notify("Error", "Error al generar reporte", "error")]
      [] kind = "exportEventosExcel" ->
            [start |-> Notify("Generando", "Creando archivo Excel de eventos...", "success"),
             done  |-> Notify("Exito", "Archivo Excel generado", "success"),
             error |-> Notify("Error", "Error al generar Excel", "error")]
      [] kind = "exportStatsPDF" ->
            [start |-> Notify("Generando", "Creando reporte de estadisticas...", "success"),
             done  |-> Notify("Exito", "Reporte generado", "success"),
             error |-> Notify("Error", "Error al generar reporte", "error")]

export(kind) ==
    /\ UserIdle
    /\ MayFetch
    /\ toast' = ExportToasts(kind).start
    /\ timers' = TimerSet(timers)
    /\ pending' = pending \cup {UserRequest(kind)}
    /\ h' = Started(h)
    /\ UNCHANGED <<notifications, capturedImageData, dom, armed, cycle, created>>

\* An export after its awaits: the file is generated and downloaded and the
\* end is notified; a success:false body ends it silently; a rejected
\* request, an unparsable body or a throwing generator ends in the catch
\* block.
exportResume(r, o) ==
    /\ r \in pending
    /\ r.op \in ExportKinds
    /\ pending' = pending \ {r}
    /\ IF Declines(o)
       THEN UNCHANGED <<toast, timers, dom, h>>
       ELSE IF Succeeds(o) /\ ~GeneratorThrows(r.op, o.data)
       THEN /\ \E now \in Clock :
                /\ dom' = [dom EXCEPT !.download = Text(ExportFile(r.op, o.data, now))]
                /\ h' = [h EXCEPT !.exported = Text([kind |-> r.op, data |-> o.data, now |-> now])]
            /\ toast' = ExportToasts(r.op).done
            /\ timers' = TimerSet(timers)
       ELSE /\ toast' = ExportToasts(r.op).error
            /\ timers' = TimerSet(timers)
            /\ UNCHANGED <<dom, h>>
    /\ UNCHANGED <<notifications, capturedImageData, armed, cycle, created>>

(***************************************************************************)
(* Time.  A tick passes only when no timer is due; a due timer's callback  *)
(* (dashboard.js:72-74) removes the class `active`.                        *)
(***************************************************************************)
Tick ==
    /\ timers # {}
    /\ 0 \notin timers
    /\ timers' = {t - 1 : t \in timers}
    /\ UNCHANGED <<notifications, capturedImageData, toast, dom, armed, cycle, pending, created, h>>

DismissTimerFires ==
    /\ 0 \in timers
    /\ timers' = timers \ {0}
    /\ toast' = HiddenToast(toast)
    /\ UNCHANGED <<notifications, capturedImageData, dom, armed, cycle, pending, created, h>>

(***************************************************************************)
(* The backend creates an event (ids are assigned in creation order).      *)
(***************************************************************************)
BackendCreatesEvent ==
    /\ created < MaxEvents
    /\ created' = created + 1
    /\ UNCHANGED <<notifications, capturedImageData, toast, timers, dom, armed, cycle, pending, h>>

InFlight(op) == {r \in pending : r.op = op}

\* The backend answers with records it holds.
EventosResponse ==
    \E r \in InFlight("eventos") : \E o \in EventosOutcomes :
        Exists(o.data) /\ checkNewEventsResume(r, o)

StatsResponse ==
    \E r \in InFlight("stats") : \E o \in StatsOutcomes :
        (o.success => Counts(o.data)) /\ loadStatsResume(r, o)

DeteccionesResponse ==
    \E r \in InFlight("detecciones") : \E o \in DeteccionesOutcomes : loadDeteccionesResume(r, o)

ResolverResponse ==
    \E r \in InFlight("resolver") : \E o \in PlainOutcomes : resolverEventoResume(r, o)

LoadEventosResponse ==
    \E r \in InFlight("loadEventos") : \E o \in EventosOutcomes :
        Exists(o.data) /\ NoDup(IdsOf(o.data)) /\ loadEventosResume(r, o)

SubmitResponse ==
    \E r \in InFlight("submit") : \E o \in PlainOutcomes : submitNewPersonResume(r, o)

LoadPersonasResponse ==
    \E r \in InFlight("loadPersonas") : \E o \in PersonasOutcomes : loadPersonasResume(r, o)

\* The backend holds nothing to export.
ExportResponse ==
    \E r \in pending : \E o \in Unsuccessful \cup Successful({Payload(<<>>)}) :
        exportResume(r, o)

ExportDataResponse ==
    \E r \in pending :
        /\ r.op \in ExportKinds
        /\ \E o \in Unsuccessful \cup Successful(ExportData(r.op)) : exportResume(r, o)

(***************************************************************************)
(* Spec: the event notification engine.  The scheduler, the event diff,    *)
(* the toast and its timers.  The stats and detections requests are issued *)
(* and stay in flight: their handlers write neither the seen ids nor the   *)
(* toast (CycleSpec has them).                                             *)
(***************************************************************************)
Next ==
    \/ init
    \/ IntervalCallback
    \/ EventosResponse
    \/ toggleNotifications
    \/ BackendCreatesEvent

Spec == Init /\ [][Next]_vars

(***************************************************************************)
(* ToastSpec: Spec with time, the dismiss timers running.                  *)
(***************************************************************************)
ToastNext ==
    \/ init
    \/ IntervalCallback
    \/ EventosResponse
    \/ toggleNotifications
    \/ BackendCreatesEvent
    \/ Tick
    \/ DismissTimerFires

ToastSpec == Init /\ [][ToastNext]_vars

(***************************************************************************)
(* CycleSpec: the poll cycle with its three fetches and their handlers.    *)
(***************************************************************************)
QuietIntervalCallback == pending = {} /\ IntervalCallback

EventosResponseOnce ==
    \E r \in InFlight("eventos") : \E o \in EventosOutcomes :
        Exists(o.data) /\ NoDup(IdsOf(o.data)) /\ checkNewEventsResume(r, o)

CycleNext ==
    \/ init
    \/ QuietIntervalCallback
    \/ EventosResponseOnce
    \/ StatsResponse
    \/ DeteccionesResponse

CycleSpec == Init /\ [][CycleNext]_vars

(***************************************************************************)
(* SessionSpec: a session of the user on the polling page.  The backend's  *)
(* events are those of the page load; the scheduler's stats and detections *)
(* requests stay in flight, as in Spec.                                    *)
(***************************************************************************)
SessionInit == Init /\ created = MaxEvents

EventosIntervalCallback == InFlight("eventos") = {} /\ IntervalCallback

UserStatsResponse ==
    \E r \in {UserRequest("stats")} \cap pending : \E o \in StatsOutcomes :
        (o.success => Counts(o.data)) /\ loadStatsResume(r, o)

SessionNext ==
    \/ init
    \/ EventosIntervalCallback
    \/ EventosResponse
    \/ toggleNotifications
    \/ \E eventoId \in Ids : resolverEvento(eventoId)
    \/ ResolverResponse
    \/ LoadEventosResponse
    \/ UserStatsResponse
    \/ capturePhoto
    \/ submitNewPerson
    \/ SubmitResponse
    \/ LoadPersonasResponse
    \/ \E kind \in ExportKinds : export(kind)
    \/ ExportResponse

SessionSpec == SessionInit /\ [][SessionNext]_vars

(***************************************************************************)
(* ReportSpec: the first export of a page load, over the data the backend  *)
(* may answer it with.                                                     *)
(***************************************************************************)
FirstExport(kind) == h.started = 0 /\ export(kind)

ReportNext ==
    \/ init
    \/ \E kind \in ExportKinds : FirstExport(kind)
    \/ ExportDataResponse

ReportSpec == SessionInit /\ [][ReportNext]_vars

(***************************************************************************)
(* OverlapSpec: the stats and detections refreshes of cycles that overlap. *)
(***************************************************************************)
OverlapNext ==
    \/ init
    \/ IntervalCallback
    \/ StatsResponse
    \/ DeteccionesResponse

OverlapSpec == SessionInit /\ [][OverlapNext]_vars

(***************************************************************************)
(* SchedulerSpec: the scheduler under the timer's fairness.  setInterval   *)
(* runs its callback every 30 s while the page is open, whatever is in     *)
(* flight; a response may never come.  The backend holds no event.         *)
(***************************************************************************)
SchedulerInit == Init /\ created = 0

SchedulerNext ==
    \/ init
    \/ IntervalCallback
    \/ EventosResponseOnce
    \/ StatsResponse
    \/ DeteccionesResponse

SchedulerSpec == SchedulerInit /\ [][SchedulerNext]_vars /\ WF_vars(IntervalCallback)

(***************************************************************************)
(* Properties.                                                             *)
(***************************************************************************)
RECURSIVE Sum(_, _)
Sum(f, S) == IF S = {} THEN 0 ELSE LET x == CHOOSE y \in S : TRUE IN f[x] + Sum(f, S \ {x})

\* C1: over completed poll cycles whose lists carry each id once (a later
\* list may repeat ids of earlier ones), every id returned so far has been
\* notified exactly once, so the notifications presented number the distinct
\* ids returned, and the seen ids count the same.
C1_NoDuplicateAcrossCycles ==
    h.dupFree =>
        /\ \A x \in Ids : h.presented[x] = IF x \in Range(h.observed) THEN 1 ELSE 0
        /\ Sum(h.presented, Ids) = Len(h.observed)
        /\ Len(notifications) = Len(h.observed)

\* Two cycles are complete, the second list repeated an id of the first and
\* brought a new one.
C1_Witness ==
    /\ h.dupFree
    /\ h.repeated
    /\ cycle = 2
    /\ InFlight("eventos") = {}
    /\ notifications = <<1, 2>>

\* C2: `notifications` holds each id at most once, in the order first
\* observed, and no notification is presented for an id that is a member at
\* that moment, whatever the lists, a list with a repeated id included.
C2_SeenSetInvariant ==
    /\ NoDup(notifications)
    /\ notifications = h.observed
    /\ ~h.stale

\* The timer of the most recent showNotification call: every call sets the
\* same delay, so it is the one with the most ticks left.
LatestTimer == CHOOSE t \in timers : \A u \in timers : u <= t

\* C4: a notification shown while an earlier one is still displayed stays
\* visible for its own display duration: as long as the timer of the most
\* recent call has ticks left, the toast is active, showing that call's
\* content; the earlier call's timer does not hide it.
C4_Preemption ==
    (timers # {} /\ LatestTimer > 0) => toast.active

Issued(r) == r \in Range(h.issued)

Handled(r) == Issued(r) /\ r \notin pending

\* C5: within a poll cycle the event fetch and diff, all additions to the
\* seen ids included, is complete before that cycle's stats request and
\* detections request are issued.
C5_DiffBeforeRefresh ==
    \A c \in 1..MaxCycles :
        (Issued(Request("stats", c)) \/ Issued(Request("detecciones", c)))
            => Handled(Request("eventos", c))

\* C6: when an event fetch is issued while the previous cycle's is still in
\* flight, every id is notified at most once and is at most once among the
\* seen ids, whatever the order of the two responses.
C6_OverlapSafe ==
    h.overlap => (NoDup(notifications) /\ \A x \in Ids : h.presented[x] <= 1)

\* C7: every pass of the scheduler, the startup pass (cycle 0) included,
\* fetches the events and diffs them, so an event present at startup is
\* notified without waiting for the first interval.
C7_StartupPassDiffs ==
    armed => \A c \in 0..cycle : Issued(Request("eventos", c))

\* C8: a failed stats, detections or events fetch does not cancel the
\* schedule (the page stays armed), the next interval callback runs after
\* every pass whatever the fetches did, and a failed fetch is not retried:
\* each pass's requests are issued once, by the scheduler's pass only.
C8_ScheduleSurvives ==
    /\ [][armed => armed']_vars
    /\ [](NoDup(h.issued) /\ Len(h.issued) = (IF armed THEN 2 ELSE 0) + 3 * cycle)
    /\ \A n \in 0..(MaxCycles - 1) : (armed /\ cycle = n) ~> (cycle = n + 1)

\* The interval callback has run after a failed fetch, twice in all, and
\* the fetches of the second pass failed too.
C8_Witness ==
    /\ armed
    /\ cycle = 2
    /\ h.survived
    /\ h.failed = {"stats", "detecciones", "eventos"}

FailsNow(op) == op \in h'.failed /\ op \notin h.failed

\* C9: a failed event fetch leaves the seen ids, the toast and the counter
\* (and the rest of the page) as they were and the cycle's other requests in
\* flight; a failed stats or detections fetch leaves the seen ids, the toast
\* and the event request as they were.
C9_FailureIsolation ==
    [][/\ FailsNow("eventos") =>
            /\ UNCHANGED <<notifications, toast, timers, dom>>
            /\ \E r \in InFlight("eventos") : pending' = pending \ {r}
       /\ (FailsNow("stats") \/ FailsNow("detecciones")) =>
            /\ UNCHANGED <<notifications, toast, timers>>
            /\ dom'.notificationCount = dom.notificationCount
            /\ InFlight("eventos")' = InFlight("eventos")
            /\ Cardinality(pending') = Cardinality(pending) - 1]_vars

\* In cycle 1 a fetch failed; in cycle 2 the stats and the detections fetch
\* failed and the event diff of that cycle recorded and counted new events.
C9_Witness ==
    /\ cycle = 2
    /\ pending = {}
    /\ h.survived
    /\ h.failed = {"stats", "detecciones"}
    /\ notifications = <<2, 1>>
    /\ dom.notificationCount = Text(2)
    /\ toast = EventToast(Evento(1))

NonSuccessStatus(o) == o.resolved /\ o.status # 200

\* C10: handling a response whose HTTP status is not a success status
\* changes neither the seen ids nor the toast nor the rendered page.
C10_NonSuccessStatusIsFailure ==
    [][\A r \in pending :
        /\ \A o \in EventosOutcomes :
            (NonSuccessStatus(o) /\ checkNewEventsResume(r, o))
                => UNCHANGED <<notifications, toast, timers, dom>>
        /\ \A o \in StatsOutcomes :
            (NonSuccessStatus(o) /\ loadStatsResume(r, o))
                => UNCHANGED <<notifications, toast, timers, dom>>
        /\ \A o \in DeteccionesOutcomes :
            (NonSuccessStatus(o) /\ loadDeteccionesResume(r, o))
                => UNCHANGED <<notifications, toast, timers, dom>>]_vars

IsPrefix(s, t) == Len(s) <= Len(t) /\ \A k \in 1..Len(s) : t[k] = s[k]

\* C3: no step of the session removes an id from `notifications` or resets
\* it (the seen ids only grow at the end), only the event diff of the poll
\* adds to it, and the ids a step notifies as new events were not among the
\* seen ids when the step began.
C3_SeenMonotonic ==
    [][/\ IsPrefix(notifications, notifications')
       /\ \A x \in Ids : h'.presented[x] > h.presented[x] => x \notin Range(notifications)
       /\ notifications' # notifications =>
            \E r \in InFlight("eventos") : pending' = pending \ {r}]_vars

\* Two events are seen, a later list carried a seen id, and the user, who
\* holds a captured photo, has since resolved an event with success: the
\* events are being listed again.
C3_Witness ==
    /\ Len(notifications) = 2
    /\ h.repeated
    /\ cycle = 2
    /\ capturedImageData
    /\ toast = Notify("Exito", "Evento resuelto correctamente", "success")
    /\ UserRequest("loadEventos") \in pending

\* C11: every failure of a user-initiated action (a person submission, an
\* export, an event resolution), be it a rejected request, an unparsable
\* body or a success:false answer, ends with an error notification on
\* display.
C11_UserFailuresSurfaced ==
    [][\A r \in pending : \A o \in PlainOutcomes :
        (/\ ~Succeeds(o)
         /\ \/ resolverEventoResume(r, o)
            \/ submitNewPersonResume(r, o)
            \/ exportResume(r, o))
        => (toast'.active /\ toast'.type = "error")]_vars

FetchFailure(o) == ~Succeeds(o) \/ NonSuccessStatus(o)

\* C12: handling a failed fetch of the scheduler (stats, detections or
\* events; a response with a non-success status is a failed fetch) presents
\* no notification: the toast and its timers stay as they were.
C12_BackgroundFailuresSilent ==
    [][\A r \in pending :
        /\ \A o \in EventosOutcomes :
            (FetchFailure(o) /\ checkNewEventsResume(r, o)) => UNCHANGED <<toast, timers>>
        /\ \A o \in StatsOutcomes :
            (FetchFailure(o) /\ loadStatsResume(r, o)) => UNCHANGED <<toast, timers>>
        /\ \A o \in DeteccionesOutcomes :
            (FetchFailure(o) /\ loadDeteccionesResume(r, o)) => UNCHANGED <<toast, timers>>]_vars

(***************************************************************************)
(* The exported file and what it was made from.                            *)
(***************************************************************************)
Exported(kinds) == h.exported # <<>> /\ h.exported[1].kind \in kinds

ExportedItems == h.exported[1].data.items

Content == dom.download[1].content

\* A quote-respecting CSV parser (RFC 4180): a field in double quotes may
\* hold commas and line breaks, a doubled double quote in it is one double
\* quote; a final line break ends the last record.  A comma or a line
\* break separates when an even number of double quotes precedes it.
Separators(text, token) ==
    {k \in 1..Len(text) :
        text[k] = token /\ Cardinality({j \in 1..(k - 1) : text[j] = DQuote}) % 2 = 0}

\* The parts of the text between the positions of S, in order.
Parts(text, S) ==
    LET Nth(j) == IF j = 0 THEN 0
                  ELSE IF j > Cardinality(S) THEN Len(text) + 1
                  ELSE CHOOSE p \in S : Cardinality({q \in S : q < p}) = j - 1
    IN  [j \in 1..(Cardinality(S) + 1) |-> SubSeq(text, Nth(j - 1) + 1, Nth(j) - 1)]

RECURSIVE Unquote(_, _)
Unquote(field, quoted) ==
    IF field = <<>> THEN <<>>
    ELSE IF Head(field) # DQuote THEN <<Head(field)>> \o Unquote(Tail(field), quoted)
    ELSE IF quoted /\ Len(field) > 1 /\ field[2] = DQuote
         THEN <<DQuote>> \o Unquote(Tail(Tail(field)), TRUE)
    ELSE Unquote(Tail(field), ~quoted)

ParseCSV(text) ==
    LET lines == Parts(text, Separators(text, LineBreak))
        kept == IF lines[Len(lines)] = <<>> THEN SubSeq(lines, 1, Len(lines) - 1) ELSE lines
    IN  [i \in 1..Len(kept) |->
            LET fields == Parts(kept[i], Separators(kept[i], Comma))
            IN  [k \in 1..Len(fields) |-> Unquote(fields[k], FALSE)]]

EventoColumns == <<"id", "tipo", "severidad", "descripcion", "timestamp", "camara_nombre", "resuelto">>

EventoRecord(e) == [k \in 1..Len(EventoColumns) |-> Get(e, EventoColumns[k]).text]

\* C13: parsing the file of the events CSV export with a quote-respecting
\* parser gives, after the header, one record per event, in order, with the
\* id, tipo, severidad, descripcion, timestamp, camara and resuelto of the
\* event, also when the texts hold commas, double quotes or line breaks.
C13_EventosCSVRoundTrip ==
    Exported({"exportEventosExcel"}) =>
        LET parsed == ParseCSV(Content)
        IN  /\ Len(parsed) = Len(ExportedItems) + 1
            /\ \A i \in 1..Len(ExportedItems) : parsed[i + 1] = EventoRecord(ExportedItems[i])

\* Splitting at a separator, the inverse of join for parts without it.
RECURSIVE Split(_, _)
Split(text, sep) ==
    IF \A k \in 1..Len(text) : text[k] # sep THEN <<text>>
    ELSE LET p == CHOOSE k \in 1..Len(text) : text[k] = sep /\ \A j \in 1..(k - 1) : text[j] # sep
         IN  <<SubSeq(text, 1, p - 1)>> \o Split(SubSeq(text, p + 1, Len(text)), sep)

Count(text, token) == Cardinality({k \in 1..Len(text) : text[k] = token})

RECURSIVE Total(_, _)
Total(f, n) == IF n = 0 THEN 0 ELSE f[n] + Total(f, n - 1)

ValueTexts(obj) == [k \in 1..Len(obj) |-> IF obj[k].value.kind = "null" THEN <<>> ELSE obj[k].value.text]

CountInValues(items, token) ==
    Total([i \in 1..Len(items) |->
             Total([k \in 1..Len(items[i]) |-> Count(ValueTexts(items[i])[k], token)], Len(items[i]))],
          Len(items))

Plain(items) == CountInValues(items, Comma) = 0 /\ CountInValues(items, LineBreak) = 0

\* C14: the generic CSV of an empty or absent list is the empty string; of
\* n >= 1 records of one shape it is the field names of the first record
\* joined by commas, then one line per record with its values joined by
\* commas in the same order, nothing escaped: split at the line breaks and
\* the commas it gives back the names and the values when these hold
\* neither, and in every case it holds no comma, line break or double quote
\* but the separators and those of the values.
C14_GenericCSV ==
    Exported({"exportPersonas", "exportExcel"}) =>
        LET items == ExportedItems
            n == Len(items)
            width == Len(items[1])
        IN  IF n = 0 THEN Content = <<>>
            ELSE /\ Count(Content, DQuote) = CountInValues(items, DQuote)
                 /\ Count(Content, Comma) = CountInValues(items, Comma) + (n + 1) * (width - 1)
                 /\ Count(Content, LineBreak) = CountInValues(items, LineBreak) + n
                 /\ Plain(items) =>
                        LET lines == Split(Content, LineBreak)
                        IN  /\ Len(lines) = n + 1
                            /\ Split(lines[1], Comma) = Keys(items[1])
                            /\ \A i \in 1..n : Split(lines[i + 1], Comma) = ValueTexts(items[i])

\* A detections CSV of two records was downloaded, the first with a comma
\* for a name and no surname.
C14_Witness ==
    /\ Exported({"exportExcel"})
    /\ Len(ExportedItems) = 2
    /\ Get(ExportedItems[1], "nombre").text = <<Comma>>
    /\ Get(ExportedItems[1], "apellido") = Null
    /\ Get(ExportedItems[2], "nombre").text = <<"a">>

Banner(kind) == IF kind = "exportPDF" THEN "=== REPORTE DE DETECCIONES ===" ELSE "=== REPORTE DE EVENTOS ==="

CountLabel(kind) == IF kind = "exportPDF" THEN "Total de detecciones: " ELSE "Total de eventos: "

FirstField(kind) == IF kind = "exportPDF" THEN "nombre" ELSE "tipo"

\* The position of the k-th ordinal mark of the report.
Mark(k) ==
    CHOOSE p \in 1..Len(Content) :
        Content[p] = ". " /\ Cardinality({q \in 1..p : Content[q] = ". "}) = k

\* C15: a structured report of n records is the banner, the line of the
\* generation time, the count line stating n, the rule, and n blocks
\* numbered 1..n in the order of the input; for n = 0 it ends with the rule.
C15_StructuredReport ==
    Exported({"exportPDF", "exportEventosPDF"}) =>
        LET kind == h.exported[1].kind
            items == ExportedItems
            n == Len(items)
        IN  /\ SubSeq(Content, 1, 3) = <<Banner(kind), LineBreak, LineBreak>>
            /\ SubSeq(Content, 4, 6) = <<"Generado: ">> \o h.exported[1].now \o <<LineBreak>>
            /\ SubSeq(Content, 7, 10) = <<CountLabel(kind)>> \o Str(n) \o <<LineBreak, LineBreak>>
            /\ \A k \in 11..80 : Content[k] = "-"
            /\ SubSeq(Content, 81, 82) = <<LineBreak, LineBreak>>
            /\ Count(Content, ". ") = n
            /\ n = 0 => Len(Content) = 82
            /\ \A k \in 1..n :
                /\ SubSeq(Content, Mark(k) - 3, Mark(k) - 1) = <<LineBreak, LineBreak>> \o Str(k)
                /\ Content[Mark(k) + 1] = Get(items[k], FirstField(kind)).text[1]

\* An events report of two different events was downloaded.
C15_Witness ==
    /\ Exported({"exportEventosPDF"})
    /\ Len(ExportedItems) = 2
    /\ Get(ExportedItems[1], "id").num = 12
    /\ Get(ExportedItems[2], "id").num = 1
    /\ Get(ExportedItems[2], "tipo").text = <<LineBreak>>

\* The last event of a list whose id is not among the seen ids.
LastNew(seen, data) ==
    data[CHOOSE k \in 1..Len(data) :
            /\ data[k].id \notin Range(seen)
            /\ \A j \in (k + 1)..Len(data) : data[j].id \in Range(seen)]

\* C16: the toast is one slot; after an event diff that finds new events it
\* is active and shows the last new event of the response (kind error, the
\* message made of its tipo and descripcion), and the id of every new event
\* of the response is among the seen ids.
C16_LastWriteWins ==
    [][\A r \in pending : \A o \in EventosOutcomes :
        (/\ Succeeds(o)
         /\ \E k \in 1..Len(o.data) : o.data[k].id \notin Range(notifications)
         /\ checkNewEventsResume(r, o))
        => LET last == LastNew(notifications, o.data)
           IN  /\ toast' = [active |-> TRUE, type |-> "error", title |-> "Nuevo Evento",
                            message |-> Message("tipo: descripcion", <<last.tipo, last.descripcion>>)]
               /\ \A k \in 1..Len(o.data) : o.data[k].id \in Range(notifications')
               /\ DisplayDuration \in timers']_vars

\* The one diff of cycle 1 found events 2 and 1, in this order: both are
\* seen and the toast shows event 1.
C16_Witness ==
    /\ cycle = 1
    /\ InFlight("eventos") = {}
    /\ notifications = <<2, 1>>
    /\ toast = EventToast(Evento(1))

\* C17: a stats or detections response is rendered when it is handled,
\* whichever cycle issued its request: after the responses of two
\* overlapping cycles the page shows the one handled last, the older
\* cycle's when that one came last, and nothing but such a response changes
\* what the page shows.
C17_ResolutionOrder ==
    /\ [][(dom'.stats # dom.stats \/ dom'.deteccionesList # dom.deteccionesList)
            => \E r \in pending : r.op \in {"stats", "detecciones"} /\ r \notin pending']_vars
    /\ [][\A r \in pending :
        /\ \A o \in StatsOutcomes :
            (Succeeds(o) /\ loadStatsResume(r, o))
                => (dom'.stats = Text(o.data) /\ h'.shown.stats = r.cycle)
        /\ \A o \in DeteccionesOutcomes :
            (Succeeds(o) /\ loadDeteccionesResume(r, o))
                => (dom'.deteccionesList = Text(DeteccionesHtml(o))
                    /\ h'.shown.detecciones = r.cycle)]_vars

\* The stats requests of cycles 1 and 2 were in flight together and both
\* were answered with success, cycle 2's first: the page shows the snapshot
\* of cycle 1, which says no event is pending, after that of cycle 2.
C17_Witness ==
    /\ cycle = 2
    /\ InFlight("stats") = {}
    /\ "stats" \notin h.failed
    /\ h.shown.stats = 1
    /\ dom.stats = Text([eventos_pendientes |-> 0])
    /\ h.shown.detecciones = 2

\* C18: a request that stays in flight blocks nothing.  The interval
\* callback can run whatever is in flight; the seen ids and the page change
\* only in the step that handles a response, so the diff or the render of a
\* request never answered never happens; and the events response of a later
\* cycle is handled in full, its new events recorded and notified, while the
\* requests of an earlier cycle are still in flight.
Older(r) == {q \in pending : q.cycle # NoCycle /\ q.cycle < r.cycle}

C18_HungRequestDoesNotBlock ==
    /\ []((armed /\ cycle < MaxCycles) => ENABLED IntervalCallback)
    /\ [][(notifications' # notifications \/ dom' # dom)
            => \E r \in pending : r \notin pending']_vars
    /\ [][\A r \in pending : \A o \in EventosOutcomes :
            (Succeeds(o) /\ Older(r) # {} /\ checkNewEventsResume(r, o))
                => /\ \A k \in 1..Len(o.data) : o.data[k].id \in Range(notifications')
                   /\ Older(r) \subseteq pending'
                   /\ (\E k \in 1..Len(o.data) : o.data[k].id \notin Range(notifications))
                        => toast' = EventToast(LastNew(notifications, o.data))]_vars

\* The events request of cycle 1 was never answered; cycle 2 started, its
\* events response was handled, and its new event is recorded and notified.
C18_Witness ==
    /\ cycle = 2
    /\ Request("eventos", 1) \in pending
    /\ Request("stats", 1) \in pending
    /\ Request("eventos", 2) \notin pending
    /\ "eventos" \notin h.failed
    /\ notifications = <<1>>
    /\ toast = EventToast(Evento(1))

\* C19: only the event diff of the poll writes the seen ids: the exports,
\* toggleNotifications, resolverEvento, loadEventos, the photo capture and
\* submitNewPerson, and the handlers of their responses, leave
\* `notifications` as it was.  An export issues a request of its own and
\* downloads nothing before the answer; a file is downloaded only in the step
\* that handles the response to an export's own request, and it is the file
\* generated from the data of that response.
UserAction ==
    \/ toggleNotifications
    \/ \E eventoId \in Ids : resolverEvento(eventoId)
    \/ ResolverResponse
    \/ LoadEventosResponse
    \/ UserStatsResponse
    \/ capturePhoto
    \/ submitNewPerson
    \/ SubmitResponse
    \/ LoadPersonasResponse
    \/ \E kind \in ExportKinds : export(kind)
    \/ ExportResponse

C19_SeenSetFrame ==
    /\ [][UserAction => notifications' = notifications]_vars
    /\ [][notifications' # notifications
            => \E r \in InFlight("eventos") : \E o \in EventosOutcomes :
                    r.cycle # NoCycle /\ checkNewEventsResume(r, o)]_vars
    /\ [][\A kind \in ExportKinds :
            export(kind) => /\ UserRequest(kind) \notin pending
                            /\ pending' = pending \cup {UserRequest(kind)}
                            /\ dom' = dom]_vars
    /\ [][dom'.download # dom.download
            => \E kind \in ExportKinds :
                 /\ UserRequest(kind) \in pending
                 /\ UserRequest(kind) \notin pending'
                 /\ \E o \in Successful({Payload(<<>>)}) : \E now \in Clock :
                      /\ exportResume(UserRequest(kind), o)
                      /\ dom'.download = Text(ExportFile(kind, o.data, now))]_vars

\* The poll has fetched and recorded two events; the events report exported
\* afterwards was answered with an empty list, and the downloaded file is the
\* report of that answer, while the seen ids are what the poll left.
C19_Witness ==
    /\ notifications = <<2, 1>>
    /\ InFlight("exportEventosPDF") = {}
    /\ \E now \in Clock :
          dom.download = Text(ExportFile("exportEventosPDF", Payload(<<>>), now))
    /\ toast = ExportToasts("exportEventosPDF").done

\* C20: submitNewPerson without a captured photo presents an error
\* notification, issues no request and leaves the photo and the rest of the
\* state as they were; handling an accepted submission clears the photo, so
\* that the next submission meets the same validation; handling a server
\* rejection or a failed fetch (a rejected request, a non-success status, an
\* unparsable body) keeps the photo.
C20_SubmissionValidation ==
    /\ [][(~capturedImageData /\ submitNewPerson)
            => /\ toast' = Notify("Error", "Debes capturar una foto", "error")
               /\ UNCHANGED <<notifications, capturedImageData, dom, armed, cycle,
                              pending, created, h>>]_vars
    /\ [][\A r \in pending : \A o \in PlainOutcomes :
            submitNewPersonResume(r, o)
                => /\ (Succeeds(o) /\ ~NonSuccessStatus(o))
                        => (/\ ~capturedImageData'
                            /\ toast'.type = "success")
                   /\ (Declines(o) \/ FetchFailure(o))
                        => (capturedImageData' /\ toast'.type = "error")]_vars

\* C21: while the toast is active a dismiss timer is pending; the toast is
\* hidden at the moment the timer of the most recent showNotification call
\* fires, a display duration after that call and not before; and once hidden
\* it stays hidden until the next call.
C21_EventualDismissal ==
    /\ [](toast.active => timers # {})
    /\ [][(toast.active /\ ~toast'.active)
            => (0 \in timers /\ LatestTimer = 0 /\ timers' = {})]_vars
    /\ [][(~toast.active /\ toast'.active) => DisplayDuration \in timers']_vars

\* C22: handling a failed event fetch (a rejected request, a non-success
\* status, an unparsable body, a success:false answer) records and notifies
\* nothing, so an event only such fetches returned is still unseen; handling
\* a successful event fetch notifies once and records every event it lists
\* that was not seen, and no other; so an event the backend keeps listing is
\* notified by the first successful fetch after its creation, and no event
\* is ever notified twice.
C22_NotifiedAfterOutage ==
    /\ [][\A r \in pending : \A o \in EventosOutcomes :
            checkNewEventsResume(r, o)
                => IF FetchFailure(o)
                   THEN notifications' = notifications /\ h'.presented = h.presented
                   ELSE \A x \in Ids :
                          IF x \in Range(IdsOf(o.data)) /\ x \notin Range(notifications)
                          THEN x \in Range(notifications') /\ h'.presented[x] = h.presented[x] + 1
                          ELSE h'.presented[x] = h.presented[x]]_vars
    /\ [](\A x \in Ids : h.presented[x] <= 1 /\ (x \in Range(notifications) <=> h.presented[x] = 1))

\* C23: the counter has two writers.  Handling an events response writes it
\* only when the diff found a new event, with the number of seen ids, and
\* leaves it as it was when there is no new event or the fetch failed;
\* handling a successful stats response writes the snapshot's count of
\* pending events; no other step writes it, so it holds what the response
\* handled last wrote.
C23_CounterWriters ==
    /\ [][\A r \in pending : \A o \in EventosOutcomes :
            checkNewEventsResume(r, o)
                => IF ~FetchFailure(o) /\ notifications' # notifications
                   THEN dom'.notificationCount = Text(Len(notifications'))
                   ELSE dom'.notificationCount = dom.notificationCount]_vars
    /\ [][\A r \in pending : \A o \in StatsOutcomes :
            (Succeeds(o) /\ ~NonSuccessStatus(o) /\ loadStatsResume(r, o))
                => dom'.notificationCount = Text(o.data.eventos_pendientes)]_vars
    /\ [][dom'.notificationCount # dom.notificationCount
            => \E r \in pending : r.op \in {"eventos", "stats"} /\ r \notin pending']_vars

====
